---- MODULE Spec2Model ----
(***************************************************************************)
(* Fiber Bag: a dot-path addressable attribute container (src/index.js)    *)
(* over a deep freeze / unfreeze utility (Support.js).                     *)
(*                                                                         *)
(* JavaScript objects live in a heap, a sequence of objects addressed by   *)
(* their index.  An object is a record                                     *)
(*     [kind, frozen, props]                                               *)
(* with props the own properties in creation order, the order in which     *)
(* Reflect.ownKeys and lodash's keys enumerate them.  A value is a record  *)
(* [t, n]: a number, null, undefined, or a reference to a heap object.     *)
(* A string is the sequence of its characters.                             *)
(***************************************************************************)
EXTENDS Integers, Sequences, FiniteSets, TLC

VARIABLES
  heap,            \* the objects alive, addressed by index
  attributes,      \* this.attributes: address of the attributes mapping
  GuardedState,    \* GuardedState.get(this): "undefined", "true" or "false"
  AttributeModel,  \* whether this.AttributeModel is set
  lodashStrict,    \* whether the bundled lodash runs as strict code
  ret,             \* value returned by the last get, has or all, held by the caller
  err,             \* error raised by the last call: "none" or "TypeError"
  last,            \* the last call and its arguments
  pc               \* the caller: "returned" from a call, or "ready" for the next

vars == <<heap, attributes, GuardedState, AttributeModel, lodashStrict, ret, err, last, pc>>

\* Bound on the number of objects alive between two calls.
MaxObj == 3
\* Bound on the number of entries of a mapping literal passed to reset, put, defaults.
MaxEntries == 1

---------------------------------------------------------------------------
\* JavaScript values

Num(n) == [t |-> "number", n |-> n]

Null == [t |-> "null", n |-> 0]

Undefined == [t |-> "undefined", n |-> 0]

Ref(a) == [t |-> "object", n |-> a]

IsRef(v) == v.t = "object"

\* value == null
IsNullish(v) == v.t \in {"null", "undefined"}

NewObj(kind) == [kind |-> kind, frozen |-> FALSE, props |-> <<>>]

\* strings used as keys
StrA == <<"a">>

StrB == <<"b">>

StrAB == <<"a", ".", "b">>

StrAC == <<"a", ".", "c">>

StrEmpty == <<>>

StrUndefined == <<"u", "n", "d", "e", "f", "i", "n", "e", "d">>

StrRaw == <<"r", "a", "w">>

\* a key argument: a string, or the key left out (undefined)
KStr(s) == [undef |-> FALSE, s |-> s]

KUndef == [undef |-> TRUE, s |-> <<>>]

\* outcome of a call: the heap after it and the error it raised, if any
Ok(h) == [h |-> h, err |-> "none"]

Throw(h) == [h |-> h, err |-> "TypeError"]

---------------------------------------------------------------------------
\* own properties

OwnKeys(o) == [i \in 1..Len(o.props) |-> o.props[i].k]

HasOwn(o, k) == \E i \in 1..Len(o.props) : o.props[i].k = k

\* o[k]: nothing of the alphabet is inherited from a prototype
PropGet(o, k) ==
  IF HasOwn(o, k)
    THEN o.props[CHOOSE i \in 1..Len(o.props) : o.props[i].k = k].v
    ELSE Undefined

PropPut(props, k, v) ==
  IF \E i \in 1..Len(props) : props[i].k = k
    THEN [i \in 1..Len(props) |-> IF props[i].k = k THEN [k |-> k, v |-> v] ELSE props[i]]
    ELSE Append(props, [k |-> k, v |-> v])

PropDel(props, k) == SelectSeq(props, LAMBDA p : p.k # k)

\* target[k] for any non-nullish value
GetV(h, target, k) == IF IsRef(target) THEN PropGet(h[target.n], k) ELSE Undefined

\* hasOwnProperty.call(target, k)
HasOwnV(h, target, k) == IsRef(target) /\ HasOwn(h[target.n], k)

\* (mutation of JsAssign: a frozen object takes the write)
JsAssignIgnoringFrozen(h, target, k, v, strict) ==
  IF IsRef(target)
    THEN Ok([h EXCEPT ![target.n].props = PropPut(@, k, v)])
    ELSE IF strict THEN Throw(h) ELSE Ok(h)

\* target[k] = v.  A frozen object, and a primitive, refuse the write:
\* strict code raises TypeError, sloppy code goes on silently.
JsAssign(h, target, k, v, strict) ==
  IF IsRef(target) /\ ~h[target.n].frozen
    THEN Ok([h EXCEPT ![target.n].props = PropPut(@, k, v)])
    ELSE IF strict THEN Throw(h) ELSE Ok(h)

\* delete target[k]: an absent key, or a primitive target, yields true
JsDelete(h, target, k, strict) ==
  IF ~HasOwnV(h, target, k) THEN Ok(h)
  ELSE IF ~h[target.n].frozen
    THEN Ok([h EXCEPT ![target.n].props = PropDel(@, k)])
    ELSE IF strict THEN Throw(h) ELSE Ok(h)

\* lodash isPlainObject
isPlainObject(h, v) == IsRef(v) /\ h[v.n].kind = "Object"

\* lodash isObject
isObject(v) == IsRef(v)

---------------------------------------------------------------------------
\* lodash: paths

HasDot(s) == \E i \in 1..Len(s) : s[i] = "."

\* key in Object(object)
In(h, s, object) == IsRef(object) /\ HasOwn(h[object.n], s)

\* isKey: undefined is a key; so is a string of word characters (reIsPlainProp),
\* a string without dot or bracket (reIsDeepProp), and a property of the object
isKey(h, value, object) == value.undef \/ ~HasDot(value.s) \/ In(h, value.s, object)

\* toKey and toString: undefined + '' is 'undefined'
toKey(value) == IF value.undef THEN StrUndefined ELSE value.s

\* index of the first dot of s from position i on, Len(s) + 1 if there is none
RECURSIVE DotFrom(_, _)
DotFrom(s, i) == IF i > Len(s) \/ s[i] = "." THEN i ELSE DotFrom(s, i + 1)

\* stringToPath: the segments between the dots
RECURSIVE stringToPath(_)
stringToPath(s) ==
  LET d == DotFrom(s, 1) IN
  IF d > Len(s) THEN <<KStr(s)>>
  ELSE <<KStr(SubSeq(s, 1, d - 1))>> \o stringToPath(SubSeq(s, d + 1, Len(s)))

castPath(h, value, object) ==
  IF isKey(h, value, object) THEN <<value>> ELSE stringToPath(toKey(value))

---------------------------------------------------------------------------
\* lodash: get, has

\* baseGet's loop: while (object != null && index < length) object = object[key]
RECURSIVE baseGetLoop(_, _, _, _)
baseGetLoop(h, object, path, index) ==
  IF IsNullish(object) \/ index > Len(path)
    THEN IF Len(path) > 0 /\ index > Len(path) THEN object ELSE Undefined
    ELSE baseGetLoop(h, GetV(h, object, toKey(path[index])), path, index + 1)

baseGet(h, object, path) == baseGetLoop(h, object, path, 1)

\* (mutation of lodash_get: a key left out or empty addresses the object itself)
lodash_getWholeOnEmptyKey(h, object, key, defaultValue) ==
  LET result == IF IsNullish(object) THEN Undefined
                ELSE IF key.undef \/ key.s = <<>> THEN object
                ELSE baseGet(h, object, castPath(h, key, object))
  IN IF result = Undefined THEN defaultValue ELSE result

\* (mutation of lodash_get: an undefined result is returned as it is)
lodash_getNoDefault(h, object, key, defaultValue) ==
  IF IsNullish(object) THEN Undefined
  ELSE baseGet(h, object, castPath(h, key, object))

\* get(object, path, defaultValue): the default stands in for an undefined result
lodash_get(h, object, key, defaultValue) ==
  LET result == IF IsNullish(object) THEN Undefined
                ELSE baseGet(h, object, castPath(h, key, object))
  IN IF result = Undefined THEN defaultValue ELSE result

\* hasPath with baseHas: every segment is an own property of the object before it
RECURSIVE hasPathLoop(_, _, _, _)
hasPathLoop(h, object, path, index) ==
  IF index > Len(path) THEN Len(path) > 0
  ELSE LET key == toKey(path[index]) IN
       IF IsNullish(object) \/ ~HasOwnV(h, object, key) THEN FALSE
       ELSE hasPathLoop(h, GetV(h, object, key), path, index + 1)

lodash_has(h, object, key) ==
  ~IsNullish(object) /\ hasPathLoop(h, object, castPath(h, key, object), 1)

---------------------------------------------------------------------------
\* lodash: set, unset, extend, defaults

\* assignValue: writes unless the own property already holds the value
assignValue(h, object, key, value, strict) ==
  IF HasOwnV(h, object, key) /\ GetV(h, object, key) = value
    THEN Ok(h)
    ELSE JsAssign(h, object, key, value, strict)

\* (mutation of baseSetLoop: every intermediate segment gets a new mapping)
RECURSIVE baseSetLoopAlwaysFresh(_, _, _, _, _, _)
baseSetLoopAlwaysFresh(h, nested, path, index, value, strict) ==
  IF IsNullish(nested) \/ index > Len(path) THEN Ok(h)
  ELSE LET key == toKey(path[index])
           isLast == index = Len(path)
           h1 == IF ~isLast THEN Append(h, NewObj("Object")) ELSE h
           newValue == IF isLast THEN value ELSE Ref(Len(h1))
           r == assignValue(h1, nested, key, newValue, strict)
       IN IF r.err # "none" THEN r
          ELSE baseSetLoopAlwaysFresh(r.h, GetV(r.h, nested, key), path, index + 1, value, strict)

\* baseSet's loop: while (nested != null && ++index < length)
RECURSIVE baseSetLoop(_, _, _, _, _, _)
baseSetLoop(h, nested, path, index, value, strict) ==
  IF IsNullish(nested) \/ index > Len(path) THEN Ok(h)
  ELSE LET key == toKey(path[index])
           isLast == index = Len(path)
           objValue == GetV(h, nested, key)
           fresh == ~isLast /\ ~isObject(objValue)
           h1 == IF fresh THEN Append(h, NewObj("Object")) ELSE h
           newValue == IF isLast THEN value
                       ELSE IF fresh THEN Ref(Len(h1)) ELSE objValue
           r == assignValue(h1, nested, key, newValue, strict)
       IN IF r.err # "none" THEN r
          ELSE baseSetLoop(r.h, GetV(r.h, nested, key), path, index + 1, value, strict)

lodash_set(h, object, key, value, strict) ==
  IF ~isObject(object) THEN Ok(h)
  ELSE baseSetLoop(h, object, castPath(h, key, object), 1, value, strict)

\* baseUnset: object = parent(object, path); object == null || delete object[last]
lodash_unset(h, object, key, strict) ==
  IF IsNullish(object) THEN Ok(h)
  ELSE LET path == castPath(h, key, object)
           par == IF Len(path) < 2 THEN object
                  ELSE baseGet(h, object, SubSeq(path, 1, Len(path) - 1))
       IN IF IsNullish(par) THEN Ok(h)
          ELSE JsDelete(h, par, toKey(path[Len(path)]), strict)

\* extend (assignIn): copyObject assigns every key of the source with assignValue
RECURSIVE lodash_extend(_, _, _, _, _)
lodash_extend(h, object, source, index, strict) ==
  IF index > Len(source) THEN Ok(h)
  ELSE LET r == assignValue(h, object, source[index].k, source[index].v, strict) IN
       IF r.err # "none" THEN r
       ELSE lodash_extend(r.h, object, source, index + 1, strict)

\* defaults: object[key] = source[key] wherever object[key] === undefined
RECURSIVE lodash_defaults(_, _, _, _, _)
lodash_defaults(h, object, source, index, strict) ==
  IF index > Len(source) THEN Ok(h)
  ELSE LET key == source[index].k
           r == IF GetV(h, object, key) = Undefined
                  THEN JsAssign(h, object, key, source[index].v, strict)
                  ELSE Ok(h)
       IN IF r.err # "none" THEN r
          ELSE lodash_defaults(r.h, object, source, index + 1, strict)

---------------------------------------------------------------------------
\* Support.js: freeze, unfreeze (an ES module, hence strict code)

\* freeze: for (const key of Reflect.ownKeys(object)) { ... } return Object.freeze(object)
RECURSIVE freeze(_, _)
RECURSIVE freezeKeys(_, _, _, _)
\* (mutation of freezeKeys: the recursion enters every object, plain or not)
RECURSIVE freezeKeysAnyObject(_, _, _, _)
freezeKeysAnyObject(h, a, keys, index) ==
  IF index > Len(keys) THEN Ok(h)
  ELSE LET value == PropGet(h[a], keys[index]) IN
       IF ~isObject(value) THEN freezeKeysAnyObject(h, a, keys, index + 1)
       ELSE LET f == freeze(h, value.n) IN
            IF f.err # "none" THEN f
            ELSE LET w == JsAssign(f.h, Ref(a), keys[index], value, TRUE) IN
                 IF w.err # "none" THEN w
                 ELSE freezeKeysAnyObject(w.h, a, keys, index + 1)

freezeKeys(h, a, keys, index) ==
  IF index > Len(keys) THEN Ok(h)
  ELSE LET value == PropGet(h[a], keys[index]) IN
       IF ~isPlainObject(h, value) THEN freezeKeys(h, a, keys, index + 1)
       ELSE LET f == freeze(h, value.n) IN
            IF f.err # "none" THEN f
            ELSE LET w == JsAssign(f.h, Ref(a), keys[index], value, TRUE) IN
                 IF w.err # "none" THEN w
                 ELSE freezeKeys(w.h, a, keys, index + 1)

\* (mutation of freeze: Object.freeze on the object alone, no recursion)
freezeTopLevelOnly(h, a) == Ok([h EXCEPT ![a].frozen = TRUE])

freeze(h, a) ==
  LET r == freezeKeys(h, a, OwnKeys(h[a]), 1) IN
  IF r.err # "none" THEN r
  ELSE Ok([r.h EXCEPT ![a].frozen = TRUE])

\* unfreeze: const unfrozen = {}; for every own key, unfrozen[key] is the
\* unfrozen copy of a plain object and the value itself otherwise.
\* Yields the heap and the address of the copy.
RECURSIVE unfreeze(_, _)
RECURSIVE unfreezeKeys(_, _, _, _, _)
\* (mutation of unfreezeKeys: a shallow copy, nested plain objects are shared)
RECURSIVE unfreezeKeysShallow(_, _, _, _, _)
unfreezeKeysShallow(h, a, unfrozen, keys, index) ==
  IF index > Len(keys) THEN [h |-> h, a |-> unfrozen]
  ELSE unfreezeKeysShallow(
         [h EXCEPT ![unfrozen].props = PropPut(@, keys[index], PropGet(h[a], keys[index]))],
         a, unfrozen, keys, index + 1)

unfreezeKeys(h, a, unfrozen, keys, index) ==
  IF index > Len(keys) THEN [h |-> h, a |-> unfrozen]
  ELSE LET value == PropGet(h[a], keys[index]) IN
       IF isPlainObject(h, value)
         THEN LET u == unfreeze(h, value.n) IN
              unfreezeKeys([u.h EXCEPT ![unfrozen].props = PropPut(@, keys[index], Ref(u.a))],
                           a, unfrozen, keys, index + 1)
         ELSE unfreezeKeys([h EXCEPT ![unfrozen].props = PropPut(@, keys[index], value)],
                           a, unfrozen, keys, index + 1)

unfreeze(h, a) ==
  unfreezeKeys(Append(h, NewObj("Object")), a, Len(h) + 1, OwnKeys(h[a]), 1)

---------------------------------------------------------------------------
\* src/index.js: class Bag.  A method takes and yields the record
\* [h, attributes, guarded, err]: the heap, the two fields of the instance and
\* the error raised so far; a method called after an error is not reached.

\* (mutation of convertToModel: the raw value is stored also when an AttributeModel is set)
convertToModelRaw(h, value) == [h |-> h, v |-> value]

\* convertToModel: new this.AttributeModel(value), an instance that keeps the
\* raw value; yields the heap and the converted value
convertToModel(h, value) ==
  IF ~AttributeModel THEN [h |-> h, v |-> value]
  ELSE [h |-> Append(h, [kind |-> "Model", frozen |-> FALSE,
                         props |-> <<[k |-> StrRaw, v |-> value]>>]),
        v |-> Ref(Len(h) + 1)]

set(b, key, value) ==
  IF b.err # "none" THEN b
  ELSE LET c == convertToModel(b.h, value)
           r == lodash_set(c.h, Ref(b.attributes), key, c.v, lodashStrict)
       IN [b EXCEPT !.h = r.h, !.err = r.err]

guard(b) ==
  IF b.err # "none" THEN b
  ELSE LET r == freeze(b.h, b.attributes) IN
       IF r.err # "none" THEN [b EXCEPT !.h = r.h, !.err = r.err]
       ELSE [b EXCEPT !.h = r.h, !.guarded = "true"]

\* (mutation of unguard: the flag is cleared, the attributes mapping is kept)
unguardWithoutCopy(b) ==
  IF b.err # "none" THEN b
  ELSE [b EXCEPT !.guarded = "false"]

unguard(b) ==
  IF b.err # "none" THEN b
  ELSE LET u == unfreeze(b.h, b.attributes) IN
       [b EXCEPT !.h = u.h, !.attributes = u.a, !.guarded = "false"]

isGuarded(b) == b.guarded

\* each(attributes, (value, key) => { this.set(key, value); })
RECURSIVE resetEach(_, _, _)
resetEach(b, entries, index) ==
  IF index > Len(entries) THEN b
  ELSE resetEach(set(b, KStr(entries[index].k), entries[index].v), entries, index + 1)

reset(b, entries, guarded) ==
  IF b.err # "none" THEN b
  ELSE LET b1 == [b EXCEPT !.h = Append(b.h, NewObj("Object")),
                           !.attributes = Len(b.h) + 1]
           b2 == resetEach(b1, entries, 1)
       IN IF guarded THEN guard(b2) ELSE b2

mutate(b, key, value) ==
  LET wasGuarded == isGuarded(b) = "true"
      b1 == IF wasGuarded THEN unguard(b) ELSE b
      b2 == set(b1, key, value)
  IN IF wasGuarded THEN guard(b2) ELSE b2

get(b, key, defaults) == lodash_get(b.h, Ref(b.attributes), key, defaults)

has(b, key) == lodash_has(b.h, Ref(b.attributes), key)

forget(b, key) ==
  IF b.err # "none" THEN b
  ELSE LET r == lodash_unset(b.h, Ref(b.attributes), key, lodashStrict) IN
       [b EXCEPT !.h = r.h, !.err = r.err]

\* (mutation of all: the attributes mapping itself is returned)
allReturnsAttributes(b) == [h |-> b.h, a |-> b.attributes]

\* all: extend({}, this.attributes); yields the heap and the address of the copy
all(b) ==
  LET h1 == Append(b.h, NewObj("Object"))
      r == lodash_extend(h1, Ref(Len(h1)), b.h[b.attributes].props, 1, lodashStrict)
  IN [h |-> r.h, a |-> Len(h1)]

put(b, entries) ==
  IF b.err # "none" THEN b
  ELSE LET r == lodash_extend(b.h, Ref(b.attributes), entries, 1, lodashStrict) IN
       [b EXCEPT !.h = r.h, !.err = r.err]

defaults(b, entries) ==
  IF b.err # "none" THEN b
  ELSE LET r == lodash_defaults(b.h, Ref(b.attributes), entries, 1, lodashStrict) IN
       [b EXCEPT !.h = r.h, !.err = r.err]

---------------------------------------------------------------------------
\* The caller.  Between two calls only the objects reachable from the
\* container or from a reference the caller holds are alive; as an object's
\* address is observable only by comparing references, the live objects are
\* renumbered in the order in which they are reached.

Bool(x) == [t |-> "boolean", n |-> IF x THEN 1 ELSE 0]

SeqRange(q) == {q[i] : i \in 1..Len(q)}

RefsOfProps(props) ==
  LET refs == SelectSeq(props, LAMBDA p : IsRef(p.v)) IN
  [i \in 1..Len(refs) |-> refs[i].v.n]

RECURSIVE Reach(_, _, _)
Reach(h, todo, done) ==
  IF todo = <<>> THEN done
  ELSE IF Head(todo) \in SeqRange(done) THEN Reach(h, Tail(todo), done)
  ELSE Reach(h, RefsOfProps(h[Head(todo)].props) \o Tail(todo), Append(done, Head(todo)))

RenV(order, v) ==
  IF IsRef(v) THEN Ref(CHOOSE i \in 1..Len(order) : order[i] = v.n) ELSE v

RenProps(order, props) ==
  [i \in 1..Len(props) |-> [k |-> props[i].k, v |-> RenV(order, props[i].v)]]

\* the state after a call that left the container as b, returned r and was made as l
After(b, r, l) ==
  LET roots == <<[k |-> <<>>, v |-> Ref(b.attributes)], [k |-> <<>>, v |-> r],
                 [k |-> <<>>, v |-> l.value]>> \o l.entries
      order == Reach(b.h, RefsOfProps(roots), <<>>)
  IN [heap |-> [i \in 1..Len(order) |->
                  [b.h[order[i]] EXCEPT !.props = RenProps(order, @)]],
      attributes |-> RenV(order, Ref(b.attributes)).n,
      GuardedState |-> b.guarded,
      err |-> b.err,
      ret |-> RenV(order, r),
      last |-> [l EXCEPT !.value = RenV(order, @), !.entries = RenProps(order, @)]]

Commit(s) ==
  /\ pc = "ready"
  /\ pc' = "returned"
  /\ Len(s.heap) <= MaxObj
  /\ heap' = s.heap
  /\ attributes' = s.attributes
  /\ GuardedState' = s.GuardedState
  /\ err' = s.err
  /\ ret' = s.ret
  /\ last' = s.last
  /\ UNCHANGED <<AttributeModel, lodashStrict>>

\* the container as a call finds it
This == [h |-> heap, attributes |-> attributes, guarded |-> GuardedState, err |-> "none"]

Call(op, key, value, entries, flag) ==
  [op |-> op, key |-> key, value |-> value, entries |-> entries, flag |-> flag]

NoCall == Call("none", KUndef, Undefined, <<>>, FALSE)

\* argument values: a literal the caller builds for the call, or the reference it holds
ValueLits == {"1", "null", "undefined", "{}", "[]"}

Literal(h, lit) ==
  CASE lit = "1" -> [h |-> h, v |-> Num(1)]
    [] lit = "null" -> [h |-> h, v |-> Null]
    [] lit = "undefined" -> [h |-> h, v |-> Undefined]
    [] lit = "{}" -> [h |-> Append(h, NewObj("Object")), v |-> Ref(Len(h) + 1)]
    [] lit = "[]" -> [h |-> Append(h, NewObj("Array")), v |-> Ref(Len(h) + 1)]

\* a mapping literal {k1: v1, ...}: its keys differ
RECURSIVE Literals(_, _, _)
Literals(h, lits, index) ==
  IF index > Len(lits) THEN [h |-> h, entries |-> <<>>]
  ELSE LET l == Literal(h, lits[index].v)
           rest == Literals(l.h, lits, index + 1)
       IN [h |-> rest.h, entries |-> <<[k |-> lits[index].k, v |-> l.v]>> \o rest.entries]

PathKeys == {StrA, StrAB}

EntryKeys == {StrA, StrAB}

EntryLits == {"1", "{}"}

RECURSIVE MappingLitsOfLen(_)
MappingLitsOfLen(n) ==
  IF n = 0 THEN {<<>>}
  ELSE {Append(m, [k |-> k, v |-> v]) :
          m \in {x \in MappingLitsOfLen(n - 1) : TRUE}, k \in EntryKeys, v \in EntryLits}

MappingLits ==
  {m \in UNION {MappingLitsOfLen(n) : n \in 0..MaxEntries} :
     \A i, j \in 1..Len(m) : i # j => m[i].k # m[j].k}

---------------------------------------------------------------------------
\* State machine: the constructor, then any sequence of calls

Init ==
  /\ AttributeModel \in BOOLEAN
  /\ lodashStrict \in BOOLEAN
  /\ \E m \in MappingLits, guarded \in BOOLEAN :
       LET ls == Literals(<<>>, m, 1)
           b == reset([h |-> ls.h, attributes |-> 0, guarded |-> "undefined", err |-> "none"],
                      ls.entries, guarded)
           s == After(b, Undefined, Call("constructor", KUndef, Undefined, ls.entries, guarded))
       IN /\ heap = s.heap
          /\ attributes = s.attributes
          /\ GuardedState = s.GuardedState
          /\ err = s.err
          /\ ret = s.ret
          /\ last = s.last
          /\ pc = "returned"

\* the caller takes the outcome of the call and goes on; it keeps a reference
\* that get returned, and lets go of the copy that all returned
Return ==
  /\ pc = "returned"
  /\ LET s == After(This, IF IsRef(ret) /\ last.op # "all" THEN ret ELSE Undefined, NoCall) IN
     /\ heap' = s.heap
     /\ attributes' = s.attributes
     /\ ret' = s.ret
     /\ last' = s.last
  /\ err' = "none"
  /\ pc' = "ready"
  /\ UNCHANGED <<GuardedState, AttributeModel, lodashStrict>>

Reset ==
  \E m \in MappingLits, guarded \in BOOLEAN :
    LET ls == Literals(heap, m, 1) IN
    Commit(After(reset([This EXCEPT !.h = ls.h], ls.entries, guarded), ret,
                 Call("reset", KUndef, Undefined, ls.entries, guarded)))

Guard == Commit(After(guard(This), ret, Call("guard", KUndef, Undefined, <<>>, FALSE)))

Unguard == Commit(After(unguard(This), ret, Call("unguard", KUndef, Undefined, <<>>, FALSE)))

Set ==
  \E k \in PathKeys, lit \in ValueLits :
    LET l == Literal(heap, lit) IN
    Commit(After(set([This EXCEPT !.h = l.h], KStr(k), l.v), ret,
                 Call("set", KStr(k), l.v, <<>>, FALSE)))

\* the caller passes on the reference it holds
SetHeld ==
  \E k \in PathKeys :
    /\ IsRef(ret) /\ ~HasDot(k)
    /\ Commit(After(set(This, KStr(k), ret), ret, Call("set", KStr(k), ret, <<>>, FALSE)))

Mutate ==
  \E k \in PathKeys, lit \in ValueLits :
    LET l == Literal(heap, lit) IN
    Commit(After(mutate([This EXCEPT !.h = l.h], KStr(k), l.v), ret,
                 Call("mutate", KStr(k), l.v, <<>>, FALSE)))

MutateHeld ==
  \E k \in PathKeys :
    /\ IsRef(ret) /\ ~HasDot(k)
    /\ Commit(After(mutate(This, KStr(k), ret), ret, Call("mutate", KStr(k), ret, <<>>, FALSE)))

Forget ==
  \E k \in PathKeys :
    Commit(After(forget(This, KStr(k)), ret, Call("forget", KStr(k), Undefined, <<>>, FALSE)))

Put ==
  \E m \in MappingLits :
    LET ls == Literals(heap, m, 1) IN
    Commit(After(put([This EXCEPT !.h = ls.h], ls.entries), ret,
                 Call("put", KUndef, Undefined, ls.entries, FALSE)))

Defaults ==
  \E m \in MappingLits :
    LET ls == Literals(heap, m, 1) IN
    Commit(After(defaults([This EXCEPT !.h = ls.h], ls.entries), ret,
                 Call("defaults", KUndef, Undefined, ls.entries, FALSE)))

\* get(key) and get(key, fallback); the key left out is undefined
Get ==
  \E key \in {KStr(k) : k \in PathKeys \cup {StrEmpty}} \cup {KUndef},
     fallback \in {Null, Num(0)} :
    Commit(After(This, get(This, key, fallback), Call("get", key, fallback, <<>>, FALSE)))

Has ==
  \E k \in PathKeys :
    Commit(After(This, Bool(has(This, KStr(k))), Call("has", KStr(k), Undefined, <<>>, FALSE)))

All ==
  LET c == all(This) IN
  Commit(After([This EXCEPT !.h = c.h], Ref(c.a), Call("all", KUndef, Undefined, <<>>, FALSE)))

Next ==
  \/ Return
  \/ Reset
  \/ Guard
  \/ Unguard
  \/ Set
  \/ SetHeld
  \/ Mutate
  \/ MutateHeld
  \/ Forget
  \/ Put
  \/ Defaults
  \/ Get
  \/ Has
  \/ All

Spec == Init /\ [][Next]_vars

---------------------------------------------------------------------------
\* Observations used by the properties

\* the plain mappings reachable from the plain mapping a through plain mappings only
RECURSIVE PlainReach(_, _, _)
PlainReach(h, todo, done) ==
  IF todo = <<>> THEN done
  ELSE IF Head(todo) \in SeqRange(done) THEN PlainReach(h, Tail(todo), done)
  ELSE PlainReach(h,
         RefsOfProps(SelectSeq(h[Head(todo)].props, LAMBDA p : isPlainObject(h, p.v)))
           \o Tail(todo),
         Append(done, Head(todo)))

PlainNodes(h, a) == SeqRange(PlainReach(h, <<a>>, <<>>))

\* the attributes mapping and every plain mapping nested in it through plain mappings is frozen
DeepFrozen(h, a) == \A x \in PlainNodes(h, a) : h[x].frozen

\* the objects reachable from a, numbered as they are reached: what a holds, up to addresses
Tree(h, a) ==
  LET order == Reach(h, <<a>>, <<>>) IN
  [i \in 1..Len(order) |-> [h[order[i]] EXCEPT !.props = RenProps(order, @)]]

\* the plain mappings reachable from a through plain mappings, with their keys
\* and values; of a value that is no plain mapping only its kind is kept
Skeleton(h, a) ==
  LET order == PlainReach(h, <<a>>, <<>>)
      SkelV(v) == IF ~IsRef(v) THEN v
                  ELSE IF isPlainObject(h, v) THEN RenV(order, v)
                  ELSE [t |-> h[v.n].kind, n |-> 0]
  IN [i \in 1..Len(order) |->
        [frozen |-> h[order[i]].frozen,
         props |-> [j \in 1..Len(h[order[i]].props) |->
                      [k |-> h[order[i]].props[j].k, v |-> SkelV(h[order[i]].props[j].v)]]]]

\* what a caller sees of a value: a scalar, or all that an object holds
Seen(h, v) ==
  IF IsRef(v) THEN [scalar |-> Undefined, tree |-> Tree(h, v.n)]
  ELSE [scalar |-> v, tree |-> <<>>]

AllKeys == {KStr(k) : k \in PathKeys \cup {StrB, StrEmpty}} \cup {KUndef}

Guarded == GuardedState = "true"

Returned(ops) == pc = "returned" /\ last.op \in ops

---------------------------------------------------------------------------
C3_GuardedIsFrozen == Guarded => DeepFrozen(heap, attributes)

\* the value get returns is v as set stores it: v itself, or the model instance built from v
Stored(h, r, v) ==
  IF AttributeModel
    THEN IsRef(r) /\ h[r.n].kind = "Model" /\ PropGet(h[r.n], StrRaw) = v
    ELSE r = v

\* C2: mutate(k, v) on a guarded container completes without raising, leaves
\* isGuarded() true, get(k) returns v (or its wrapped form) and the tree is
\* deeply frozen again; on an unguarded container it stores v as set does and
\* leaves the container unguarded.
C2_Mutate ==
  [][(pc = "ready" /\ last'.op = "mutate")
     => /\ err' = "none"
        /\ Stored(heap', get(This', last'.key, Null), last'.value)
        /\ IF Guarded THEN GuardedState' = "true" /\ DeepFrozen(heap', attributes')
           ELSE GuardedState' = GuardedState]_vars

\* C4: after set(k, v) on an unguarded container get(k) returns exactly v
\* (the instance built from v when an AttributeModel is configured), for
\* every v including null and undefined.
C4_SetThenGet ==
  (Returned({"set"}) /\ ~Guarded)
    => Stored(heap, get(This, last.key, Null), last.value)

\* C5: reset called directly on a guarded container raises.
C5_ResetOnGuardedRaises ==
  [][(pc = "ready" /\ last'.op = "reset" /\ Guarded /\ DeepFrozen(heap, attributes))
     => err' = "TypeError"]_vars

\* C6: freeze is idempotent: freezing the frozen result of freeze(m) does not
\* raise and leaves the structure unchanged, for m the attribute tree.
C6_FreezeIdempotent ==
  LET once == freeze(heap, attributes) IN
  once.err = "none"
    => LET twice == freeze(once.h, attributes) IN
       twice.err = "none" /\ twice.h = once.h

\* the keys and values of the plain mapping a in order, a plain mapping among
\* the values being given by its own keys and values, and any other value as
\* it is (a reference by its address)
RECURSIVE Shape(_, _)
Shape(h, a) ==
  [j \in 1..Len(h[a].props) |->
     LET p == h[a].props[j] IN
     IF isPlainObject(h, p.v)
       THEN [k |-> p.k, v |-> [t |-> "plain", n |-> 0], sub |-> Shape(h, p.v.n)]
       ELSE [k |-> p.k, v |-> p.v, sub |-> <<>>]]

\* unfreeze of the frozen tree at a: a new top-level mapping, structurally
\* equal, every plain mapping of it new and unfrozen, every other value the
\* same reference, and the frozen original as it was
UnfreezeCopies(h, a) ==
  LET u == unfreeze(h, a) IN
  /\ u.a \notin 1..Len(h)
  /\ PlainNodes(u.h, u.a) \cap (1..Len(h)) = {}
  /\ \A x \in PlainNodes(u.h, u.a) : ~u.h[x].frozen
  /\ Shape(u.h, u.a) = Shape(h, a)
  /\ SubSeq(u.h, 1, Len(h)) = h

\* C7: unfreeze(freeze(m)) is a new top-level mapping structurally equal to m
\* in which every plain mapping is a new unfrozen one, while arrays, scalars
\* and instances are the same references; the frozen original is not
\* modified.  unguard() leaves the container with exactly that copy.
C7_UnfreezeOfFrozen ==
  [][(pc = "ready" /\ last'.op = "unguard" /\ DeepFrozen(heap, attributes))
     => /\ UnfreezeCopies(heap, attributes)
        /\ Tree(heap', attributes')
             = Tree(unfreeze(heap, attributes).h, unfreeze(heap, attributes).a)
        /\ ~DeepFrozen(heap', attributes')]_vars

\* unguard() made an unfrozen copy of a nested plain mapping that the caller
\* still holds frozen
C7_Witness ==
  /\ Returned({"unguard"})
  /\ isPlainObject(heap, ret) /\ heap[ret.n].frozen
  /\ LET copy == get(This, KStr(StrA), Null) IN
     /\ isPlainObject(heap, copy) /\ copy # ret /\ ~heap[copy.n].frozen
     /\ Shape(heap, copy.n) = Shape(heap, ret.n)
     /\ Len(heap[copy.n].props) > 0

\* C8: on an unguarded container has(k) is true right after set(k, v), for
\* every v, and false right after forget(k).
C8_HasAfterSetAndForget ==
  /\ (Returned({"set"}) /\ ~Guarded) => has(This, last.key)
  /\ (Returned({"forget"}) /\ ~Guarded) => ~has(This, last.key)

C10_GetMissingPath ==
  [][(pc = "ready" /\ last'.op = "get")
     => /\ err' = "none"
        /\ ~has(This, last'.key) => ret' = last'.value
        /\ Tree(heap', attributes') = Tree(heap, attributes)
        /\ GuardedState' = GuardedState]_vars

\* get('a.b', 0) returned the fallback on a guarded container whose a holds a scalar or null
C10_Witness ==
  /\ Returned({"get"}) /\ Guarded
  /\ last.key = KStr(StrAB) /\ last.value = Num(0)
  /\ PropGet(heap[attributes], StrA) \in {Num(1), Null}
  /\ ret = Num(0)

\* C11: defaults(d) on an unguarded container never overwrites a key that is
\* present (has(key) is true), whatever its value, and assigns d[key] for
\* every key of d that is not present.
C11_DefaultsKeepsPresent ==
  [][(pc = "ready" /\ last'.op = "defaults" /\ ~Guarded)
     => \A i \in 1..Len(last'.entries) :
          LET key == KStr(last'.entries[i].k) IN
          IF has(This, key)
            THEN Seen(heap', get(This', key, Null)) = Seen(heap, get(This, key, Null))
            ELSE get(This', key, Null) = last'.entries[i].v]_vars

\* no plain mapping of the attribute tree is frozen: a write into it takes effect
Unfrozen(h, a) == \A x \in PlainNodes(h, a) : ~h[x].frozen

\* C12: with an AttributeModel configured, what set, mutate, reset and the
\* constructor store at a key is the instance constructed on the raw value,
\* while put stores the raw value itself under the literal top-level key;
\* with no AttributeModel all of them store the raw value.  (Of the entries
\* of one reset a later one may overwrite an earlier one: the last is read.)
C12_StoredForm ==
  /\ (last.op = "constructor" /\ last.entries # <<>>)
       => Stored(heap, get(This, KStr(last.entries[Len(last.entries)].k), Undefined),
                 last.entries[Len(last.entries)].v)
  /\ [][pc = "ready"
        => /\ (last'.op = "set" /\ ~Guarded /\ Unfrozen(heap, attributes))
                => Stored(heap', get(This', last'.key, Undefined), last'.value)
           /\ (last'.op = "mutate" /\ (Guarded \/ Unfrozen(heap, attributes)))
                => Stored(heap', get(This', last'.key, Undefined), last'.value)
           /\ (last'.op = "reset" /\ last'.entries # <<>>)
                => Stored(heap', get(This', KStr(last'.entries[Len(last'.entries)].k), Undefined),
                          last'.entries[Len(last'.entries)].v)
           /\ (last'.op = "put" /\ ~heap[attributes].frozen)
                => \A i \in 1..Len(last'.entries) :
                     /\ HasOwn(heap'[attributes'], last'.entries[i].k)
                     /\ PropGet(heap'[attributes'], last'.entries[i].k) = last'.entries[i].v]_vars

\* with an AttributeModel configured, put stored a raw plain mapping under the
\* literal key 'a.b' next to an instance that set stored under 'a'
C12_Witness ==
  /\ Returned({"put"}) /\ AttributeModel
  /\ HasOwn(heap[attributes], StrAB)
  /\ isPlainObject(heap, PropGet(heap[attributes], StrAB))
  /\ PropGet(heap[attributes], StrAB) = last.entries[1].v
  /\ IsRef(PropGet(heap[attributes], StrA))
  /\ heap[PropGet(heap[attributes], StrA).n].kind = "Model"

\* C13: all() returns a new, unfrozen top-level mapping with the keys and the
\* value references of attributes: assigning or deleting a top-level key of
\* it succeeds and leaves the container as it was, also when the container is
\* guarded, while the values are the same objects as in the container.
C13_AllIsShallowCopy ==
  Returned({"all"})
    => /\ isPlainObject(heap, ret) /\ ret # Ref(attributes)
       /\ ~heap[ret.n].frozen
       /\ heap[ret.n].props = heap[attributes].props
       /\ \A k \in {StrA, StrB, StrAB} :
            LET w == JsAssign(heap, ret, k, Num(7), TRUE)
                d == JsDelete(heap, ret, k, TRUE)
            IN /\ w.err = "none" /\ PropGet(w.h[ret.n], k) = Num(7)
               /\ d.err = "none" /\ ~HasOwn(d.h[ret.n], k)
               /\ Tree(w.h, attributes) = Tree(heap, attributes)
               /\ Tree(d.h, attributes) = Tree(heap, attributes)

\* all() on a guarded container returned an unfrozen copy that shares the
\* frozen plain mapping stored under 'a'
C13_Witness ==
  /\ Returned({"all"}) /\ Guarded /\ heap[attributes].frozen
  /\ IsRef(ret) /\ ~heap[ret.n].frozen /\ ret # Ref(attributes)
  /\ isPlainObject(heap, PropGet(heap[attributes], StrA))
  /\ heap[PropGet(heap[attributes], StrA).n].frozen
  /\ PropGet(heap[ret.n], StrA) = PropGet(heap[attributes], StrA)

\* C14: after unguard() on a guarded container isGuarded() is false,
\* attributes is a new mapping structurally equal to the one before in which
\* no plain mapping is frozen, and a set, put or forget that follows succeeds
\* and shows through get.
C14_UnguardMakesWritable ==
  [][(pc = "ready" /\ last'.op = "unguard" /\ Guarded)
     => /\ GuardedState' = "false"
        /\ LET u == unfreeze(heap, attributes) IN
           /\ u.a \notin 1..Len(heap)
           /\ Shape(u.h, u.a) = Shape(heap, attributes)
           /\ Tree(heap', attributes') = Tree(u.h, u.a)
        /\ Unfrozen(heap', attributes')
        /\ \A k \in PathKeys, v \in {Num(1), Null} :
             LET s == set(This', KStr(k), v)
                 p == put(This', <<[k |-> k, v |-> v]>>)
                 f == forget(This', KStr(k))
             IN /\ s.err = "none" /\ Stored(s.h, get(s, KStr(k), Undefined), v)
                /\ p.err = "none" /\ get(p, KStr(k), Undefined) = v
                /\ f.err = "none" /\ get(f, KStr(k), Undefined) = Undefined]_vars

\* C15: after the constructor or reset(attributes, g), isGuarded() returns
\* the boolean g, whatever the guarded state was before.
C15_ResetSetsGuarded ==
  Returned({"constructor", "reset"})
    => isGuarded(This) = IF last.flag THEN "true" ELSE "false"

\* the objects reachable from the attributes mapping a that are no plain
\* mapping reached through plain mappings: arrays, instances, and whatever is
\* reachable only through them
Opaque(h, a) == SeqRange(Reach(h, <<a>>, <<>>)) \ PlainNodes(h, a)

\* C16: freeze and unfreeze treat arrays and instances as opaque leaves.
\* guard() leaves every array, every instance and every object reachable
\* only through them exactly as it was (none of them is frozen by it, and no
\* array or instance is frozen afterwards); unguard() carries the arrays and
\* instances over as the same references and leaves them untouched.
C16_OpaqueLeaves ==
  [][pc = "ready"
     => /\ last'.op = "guard"
             => LET g == guard(This) IN
                /\ Tree(heap', attributes') = Tree(g.h, g.attributes)
                /\ \A x \in Opaque(heap, attributes) : g.h[x] = heap[x]
                /\ \A x \in Opaque(heap, attributes) :
                     heap[x].kind # "Object" => ~g.h[x].frozen
        /\ last'.op = "unguard"
             => LET u == unguard(This) IN
                /\ Tree(heap', attributes') = Tree(u.h, u.attributes)
                /\ Shape(u.h, u.attributes) = Shape(heap, attributes)
                /\ \A x \in Opaque(heap, attributes) : u.h[x] = heap[x]]_vars

\* guard() froze the attributes mapping and left the instance stored under
\* 'a' and the plain mapping that instance holds unfrozen
C16_Witness ==
  /\ Returned({"guard"}) /\ Guarded /\ heap[attributes].frozen
  /\ LET v == PropGet(heap[attributes], StrA) IN
     /\ IsRef(v) /\ heap[v.n].kind = "Model" /\ ~heap[v.n].frozen
     /\ isPlainObject(heap, PropGet(heap[v.n], StrRaw))
     /\ ~heap[PropGet(heap[v.n], StrRaw).n].frozen

\* C16 as stated: after guard() no array, no instance and no plain mapping
\* reachable only through them is frozen
C16_Original ==
  (Returned({"guard"}) /\ err = "none")
    => \A x \in Opaque(heap, attributes) : ~heap[x].frozen

---------------------------------------------------------------------------
\* Calls of set over sibling keys: the constructor, then set, put and a set
\* that stores under 'b' the value found under 'a'

SetKeys == {StrA, StrB, StrAB, StrAC}

SetLits == {"1", "null", "{}", "[]"}

SetWide ==
  \E k \in SetKeys, lit \in SetLits :
    LET l == Literal(heap, lit) IN
    Commit(After(set([This EXCEPT !.h = l.h], KStr(k), l.v), ret,
                 Call("set", KStr(k), l.v, <<>>, FALSE)))

\* bag.set('b', bag.get('a'))
SetShared ==
  LET v == get(This, KStr(StrA), Null) IN
  /\ IsRef(v)
  /\ Commit(After(set(This, KStr(StrB), v), ret, Call("set", KStr(StrB), v, <<>>, FALSE)))

NextSet ==
  \/ Return
  \/ SetWide
  \/ SetShared
  \/ Put

SpecSet == Init /\ [][NextSet]_vars

\* the path p is a prefix of the path k, segment by segment
IsPrefix(p, k) ==
  /\ Len(p) <= Len(k)
  /\ SubSeq(k, 1, Len(p)) = p
  /\ (Len(p) = Len(k) \/ k[Len(p) + 1] = ".")

Related(p, k) == IsPrefix(p, k) \/ IsPrefix(k, p)

\* the object that set(k, v) writes the last segment of k into, where that
\* object exists already
Written(h, a, k) ==
  LET path == castPath(h, KStr(k), Ref(a)) IN
  IF Len(path) < 2 THEN Ref(a)
  ELSE baseGet(h, Ref(a), SubSeq(path, 1, Len(path) - 1))

\* the value at the path p holds the object that set(k, v) writes into
Shares(h, a, p, k) ==
  LET v == lodash_get(h, Ref(a), KStr(p), Undefined)
      w == Written(h, a, k)
  IN IsRef(v) /\ IsRef(w) /\ w.n \in SeqRange(Reach(h, <<v.n>>, <<>>))

\* C17: set(k, v) on an unguarded container changes only the entry at k: for
\* every path p that is no prefix of k, has not k as a prefix and whose value
\* does not hold the object written into, get(p) and has(p) are as before;
\* and where k is a path (no own top-level key of attributes) whose first
\* segment holds no object, set stores a new plain mapping there.
C17_SetFrame ==
  [][(pc = "ready" /\ last'.op = "set" /\ ~Guarded)
     => /\ \A p \in SetKeys :
             (~Related(p, last'.key.s) /\ ~Shares(heap, attributes, p, last'.key.s))
               => /\ Seen(heap', get(This', KStr(p), Undefined))
                       = Seen(heap, get(This, KStr(p), Undefined))
                  /\ has(This', KStr(p)) = has(This, KStr(p))
        /\ (HasDot(last'.key.s) /\ ~HasOwn(heap[attributes], last'.key.s)
              /\ ~isObject(get(This, KStr(StrA), Undefined)))
             => /\ isPlainObject(heap', get(This', KStr(StrA), Undefined))
                /\ ~HasOwn(heap'[attributes'], last'.key.s)]_vars

\* set('a.c', v) stored v next to the sibling 'a.b', which kept its value 1
C17_Witness ==
  /\ Returned({"set"}) /\ ~Guarded /\ ~AttributeModel
  /\ last.key = KStr(StrAC) /\ last.value = Null
  /\ get(This, KStr(StrAB), Undefined) = Num(1)
  /\ HasOwnV(heap, get(This, KStr(StrA), Undefined), <<"c">>)
  /\ has(This, KStr(StrB))

\* C17 as stated: set(k, v) creates a nested mapping for every missing
\* intermediate segment of k, and get(p) and has(p) are unchanged for every
\* path p that is neither a prefix of k nor has k as a prefix
C17_Original ==
  [][(pc = "ready" /\ last'.op = "set" /\ ~Guarded)
     => /\ \A p \in SetKeys :
             ~Related(p, last'.key.s)
               => /\ Seen(heap', get(This', KStr(p), Undefined))
                       = Seen(heap, get(This, KStr(p), Undefined))
                  /\ has(This', KStr(p)) = has(This, KStr(p))
        /\ (HasDot(last'.key.s) /\ ~isObject(get(This, KStr(StrA), Undefined)))
             => isPlainObject(heap', get(This', KStr(StrA), Undefined))]_vars

---------------------------------------------------------------------------
\* the values a caller passes to mutate: a literal it builds, or the reference it holds
MutateInputs(h) ==
  {Literal(h, lit) : lit \in ValueLits} \cup (IF IsRef(ret) THEN {[h |-> h, v |-> ret]} ELSE {})

\* C18: mutate(k, v) on a guarded container never modifies the previously
\* frozen tree: the attributes mapping and every plain mapping nested in it
\* keep their keys, their values and their frozen state, and the container's
\* attributes after the call is another object than before.
C18_MutateLeavesFrozenTree ==
  [][(pc = "ready" /\ last'.op = "mutate" /\ Guarded /\ DeepFrozen(heap, attributes))
     => /\ \E l \in MutateInputs(heap) :
             LET m == mutate([This EXCEPT !.h = l.h], last'.key, l.v) IN
             Tree(heap', attributes') = Tree(m.h, m.attributes) /\ err' = m.err
        /\ \A l \in MutateInputs(heap) :
             LET m == mutate([This EXCEPT !.h = l.h], last'.key, l.v) IN
             /\ m.attributes # attributes
             /\ \A x \in PlainNodes(heap, attributes) : m.h[x] = heap[x]]_vars

\* after mutate('a.b', null) on a guarded container the frozen mapping that the
\* caller took from 'a' before still holds b = 1, while get('a.b') is null
C18_Witness ==
  /\ Returned({"mutate"}) /\ err = "none" /\ Guarded
  /\ last.key = KStr(StrAB) /\ last.value = Null
  /\ isPlainObject(heap, ret) /\ heap[ret.n].frozen
  /\ PropGet(heap[ret.n], StrB) = Num(1)
  /\ ret \notin {Ref(attributes), PropGet(heap[attributes], StrA)}
  /\ get(This, KStr(StrAB), Undefined) = Null

---------------------------------------------------------------------------
\* Calls of mutate with an AttributeModel whose constructor throws on the value

\* set(key, value) where new this.AttributeModel(value) throws: the error
\* leaves convertToModel and set before lodash set is called
setModelThrows(b, key, value) ==
  IF b.err # "none" THEN b
  ELSE [b EXCEPT !.err = "Error"]

\* mutate(key, value) where the constructor of the AttributeModel throws
mutateModelThrows(b, key, value) ==
  LET wasGuarded == isGuarded(b) = "true"
      b1 == IF wasGuarded THEN unguard(b) ELSE b
      b2 == setModelThrows(b1, key, value)
  IN IF wasGuarded THEN guard(b2) ELSE b2

MutateModelThrows ==
  /\ AttributeModel
  /\ \E k \in PathKeys :
       Commit(After(mutateModelThrows(This, KStr(k), Num(1)), ret,
                    Call("mutate", KStr(k), Num(1), <<>>, FALSE)))

NextRaise ==
  \/ Return
  \/ Guard
  \/ Unguard
  \/ Mutate
  \/ MutateModelThrows
  \/ Get

SpecRaise == Init /\ [][NextRaise]_vars

\* C19: mutate restores the guarded state on every outcome: when the write
\* inside mutate(k, v) on a guarded container raises, the container is guarded
\* afterwards, isGuarded() is true and the attribute tree is frozen.
C19_MutateRestoresGuard ==
  [][(pc = "ready" /\ last'.op = "mutate" /\ Guarded /\ DeepFrozen(heap, attributes)
        /\ err' # "none")
     => GuardedState' = "true" /\ DeepFrozen(heap', attributes')]_vars

---------------------------------------------------------------------------
\* the plain mappings among the values a call was given
PassedMappings(h, l) ==
  {v \in {l.value} \cup {l.entries[i].v : i \in 1..Len(l.entries)} : isPlainObject(h, v)}

\* the outcome of the guard() that follows; reset(attributes, true) has made it already
AfterGuard(h, a, guarded) == IF guarded THEN Ok(h) ELSE freeze(h, a)

\* guard() freezes the mapping v that the caller passed and still holds where
\* v is stored in the attribute tree a through plain mappings, and leaves it
\* as it was where it is held by an instance or an array; its entries stay
FrozenInPlace(h, a, v, guarded) ==
  LET g == AfterGuard(h, a, guarded) IN
  /\ (v.n \in PlainNodes(h, a) /\ g.err = "none") => g.h[v.n].frozen
  /\ v.n \notin PlainNodes(h, a) => g.h[v.n] = h[v.n]
  /\ g.h[v.n].props = h[v.n].props
  /\ h[v.n].frozen => g.h[v.n].frozen

\* guard() leaves the top-level mapping that was passed, held by the caller
\* with the given entries, unfrozen and as it was
ArgumentUntouched(h, a, entries) ==
  LET arg == [kind |-> "Object", frozen |-> FALSE, props |-> entries]
      h2 == Append(h, arg)
  IN freeze(h2, a).h[Len(h2)] = arg

====
